---------------------------- MODULE Spec2Model ----------------------------
(*************************************************************************)
(* Model of File-Explorer/src/main.rs: the druid application state       *)
(* (AppState), the Search click handler that spawns one worker thread    *)
(* per click, the worker's search_files call and its submit_command to   *)
(* the external event sink, the AppDelegate that applies delivered       *)
(* commands on the UI thread, the click on a result that hands its path  *)
(* to open_path, and a file system in which one subdirectory is either   *)
(* unreadable or readable and empty.                                     *)
(*                                                                       *)
(* Strings are sequences of one-character strings, so that formatting,   *)
(* path parsing, path display and regex matching are computed.           *)
(*************************************************************************)
EXTENDS Integers, Sequences, FiniteSets, TLC

VARIABLES
    root_path,       \* AppState.root_path
    search_term,     \* AppState.search_term
    search_results,  \* AppState.search_results
    pc,              \* per worker thread: position in the spawned closure
    root,            \* per worker thread: the moved clone of root_path
    term,            \* per worker thread: the moved clone of search_term
    results,         \* per worker thread: the local `results`
    queue,           \* commands submitted to the ExtEventSink, FIFO
    app,             \* the process: "running", or "crashed" by a UI-thread panic
    opened,          \* the path last handed to the OS launcher by open_path
    locked,          \* the file system: /a/lck cannot be opened
    submitOrder,     \* history: workers in the order they submitted
    handledOrder,    \* history: workers in the order their command was handled
    lastWrite        \* history: the handler that last assigned search_results

vars == <<root_path, search_term, search_results, pc, root, term, results,
          queue, app, opened, locked, submitOrder, handledOrder, lastWrite>>

-----------------------------------------------------------------------------
(* Bounds *)

\* Number of Search clicks (worker threads) in one behaviour.
MaxRequests == 2

Workers == 1..MaxRequests

-----------------------------------------------------------------------------
(* Strings *)

Slash == "/"

\* ASCII simple case folding used by a case-insensitive regex.
Fold == [A |-> "a", B |-> "b", C |-> "c", D |-> "d", E |-> "e", F |-> "f",
         G |-> "g", H |-> "h", I |-> "i", J |-> "j", K |-> "k", L |-> "l",
         M |-> "m", N |-> "n", O |-> "o", P |-> "p", Q |-> "q", R |-> "r",
         S |-> "s", T |-> "t", U |-> "u", V |-> "v", W |-> "w", X |-> "x",
         Y |-> "y", Z |-> "z"]

Lower(c) == IF c \in DOMAIN Fold THEN Fold[c] ELSE c

\* The bare names that occur in the file system below.
n_a    == <<"a">>
n_foo  == <<"f", "o", "o">>
n_Foo  == <<"F", "o", "o">>
n_bar  == <<"b", "a", "r">>
n_fob  == <<"f", "O", "O", "b">>
n_baz  == <<"b", "a", "z">>
n_qux  == <<"q", "u", "x">>
n_lck  == <<"l", "c", "k">>
n_fox  == <<"f", "o", "x">>
n_nope == <<"n", "o">>


-----------------------------------------------------------------------------
(* Paths: PathBuf::from, Path::join, Path::file_name, Path::display *)

RECURSIVE SplitFrom(_, _, _)
\* Components of the string s from index i on; cur is the component being read.
SplitFrom(s, i, cur) ==
    IF i > Len(s) THEN (IF cur = <<>> THEN <<>> ELSE <<cur>>)
    ELSE IF s[i] = Slash
         THEN (IF cur = <<>> THEN <<>> ELSE <<cur>>) \o SplitFrom(s, i + 1, <<>>)
         ELSE SplitFrom(s, i + 1, Append(cur, s[i]))

\* PathBuf::from(root_path): the normal components of an absolute path.
PathBufFrom(s) == SplitFrom(s, 1, <<>>)

RECURSIVE Display(_)
\* path.display().to_string() of an absolute path.
Display(p) ==
    IF p = <<>> THEN <<>>
    ELSE <<Slash>> \o Head(p) \o Display(Tail(p))

PathDisplay(p) == IF p = <<>> THEN <<Slash>> ELSE Display(p)

\* Mutant: the directory itself stands for its entry.
JoinSelf(dir, name) == dir

\* Path::join of a directory and an entry name (entry.path()).
Join(dir, name) == Append(dir, name)

\* Option values.
Some(v)  == [some |-> TRUE, val |-> v]
NoneOpt  == [some |-> FALSE, val |-> <<>>]

\* Path::file_name: the final component, None for the root.
FileName(p) == IF p = <<>> THEN NoneOpt ELSE Some(p[Len(p)])

-----------------------------------------------------------------------------
(* The file system the workers read (fs::read_dir, is_dir, is_file).      *)
(* children is the order in which read_dir enumerates the directory.      *)

Dir(p, ch, rd) == [path |-> p, kind |-> "dir", readable |-> rd, children |-> ch]
File(p)        == [path |-> p, kind |-> "file", readable |-> TRUE, children |-> <<>>]
Other(p)       == [path |-> p, kind |-> "other", readable |-> TRUE, children |-> <<>>]

\*  /a            directory: foo, Foo, baz, lck, fox
\*  /a/foo        file
\*  /a/Foo        directory: bar, fOOb
\*  /a/Foo/bar    file
\*  /a/Foo/fOOb   file
\*  /a/baz        directory: qux
\*  /a/baz/qux    file
\*  /a/lck        directory that cannot be opened (permission denied)
\*  /a/lck/foo    file
\*  /a/fox        neither file nor directory (dangling symlink)
\* While locked is false, /a/lck is instead a readable, empty directory.
FixedEntries ==
    { Dir(<<>>, <<n_a>>, TRUE),
      Dir(<<n_a>>, <<n_foo, n_Foo, n_baz, n_lck, n_fox>>, TRUE),
      File(<<n_a, n_foo>>),
      Dir(<<n_a, n_Foo>>, <<n_bar, n_fob>>, TRUE),
      File(<<n_a, n_Foo, n_bar>>),
      File(<<n_a, n_Foo, n_fob>>),
      Dir(<<n_a, n_baz>>, <<n_qux>>, TRUE),
      File(<<n_a, n_baz, n_qux>>),
      Other(<<n_a, n_fox>>) }

FileSystemLocked ==
    FixedEntries
        \cup { Dir(<<n_a, n_lck>>, <<n_foo>>, FALSE), File(<<n_a, n_lck, n_foo>>) }

FileSystemUnlocked ==
    FixedEntries \cup { Dir(<<n_a, n_lck>>, <<>>, TRUE) }

FileSystem == IF locked THEN FileSystemLocked ELSE FileSystemUnlocked

Exists(p) == \E e \in FileSystem : e.path = p
Node(p)   == CHOOSE e \in FileSystem : e.path = p

\* Path::is_dir / Path::is_file
IsDir(p)  == Exists(p) /\ Node(p).kind = "dir"
IsFile(p) == Exists(p) /\ Node(p).kind = "file"

\* fs::read_dir(dir): Ok(entries in enumeration order) or Err.
ReadDir(p) ==
    IF IsDir(p) /\ Node(p).readable
    THEN [ok |-> TRUE, entries |-> Node(p).children]
    ELSE [ok |-> FALSE, entries |-> <<>>]

-----------------------------------------------------------------------------
(* Regex::new and Regex::is_match, for patterns made of literal           *)
(* characters, the any-character dot, groups and the (?i) flag group.     *)

FlagI == <<"(", "?", "i", ")">>

\* format!(r"(?i){}", search_term)
FormatPattern(t) == FlagI \o t

HasFlagI(src) == Len(src) >= Len(FlagI) /\ SubSeq(src, 1, Len(FlagI)) = FlagI

RECURSIVE Balanced(_, _, _)
\* Every ")" of s[i..] closes an open group and every "(" is closed.
Balanced(s, i, depth) ==
    IF i > Len(s) THEN depth = 0
    ELSE IF s[i] = "(" THEN Balanced(s, i + 1, depth + 1)
    ELSE IF s[i] = ")" THEN depth > 0 /\ Balanced(s, i + 1, depth - 1)
    ELSE Balanced(s, i + 1, depth)

\* The atoms of a pattern: plain groups only concatenate their contents.
Atoms(s) == SelectSeq(s, LAMBDA c : c \notin {"(", ")"})

\* Regex::new(src): Ok(regex) or Err (unclosed or unopened group).
RegexNew(src) ==
    LET ci   == HasFlagI(src)
        body == IF ci THEN SubSeq(src, Len(FlagI) + 1, Len(src)) ELSE src
    IN  IF Balanced(body, 1, 0)
        THEN [ok |-> TRUE, ci |-> ci, atoms |-> Atoms(body)]
        ELSE [ok |-> FALSE, ci |-> ci, atoms |-> <<>>]

AtomMatches(re, a, c) ==
    \/ a = "."
    \/ a = c
    \/ re.ci /\ Lower(a) = Lower(c)

\* regex.is_match(name): unanchored, so a match may start at any offset.
IsMatch(re, name) ==
    \E off \in 0..(Len(name) - Len(re.atoms)) :
        \A j \in 1..Len(re.atoms) : AtomMatches(re, re.atoms[j], name[off + j])

-----------------------------------------------------------------------------
(* search_files and search_files_recursive *)

\* The outcome of a call made on a worker thread: it returns or it panics.
Returned(v) == [panic |-> FALSE, results |-> v]
Panicked    == [panic |-> TRUE, results |-> <<>>]

\* Mutant: the regex is applied to the whole path.
MatchSubjectFullPath(path) == Some(PathDisplay(path))

\* The string the regex is applied to: entry.path().file_name().to_str().
MatchSubject(path) == FileName(path)

\* Mutant: a directory counts only if it can be opened.
EligibleIfReadable(path) == IsFile(path) \/ ReadDir(path).ok

\* Mutant: only files count.
EligibleFilesOnly(path) == IsFile(path)

\* entry.path().is_file() || entry.path().is_dir()
Eligible(path) == IsFile(path) \/ IsDir(path)

\* The body of the for loop for one directory entry: what it pushes.
Pushed(dir, name, regex) ==
    LET path == Join(dir, name)
        subj == MatchSubject(path)
    IN  IF Eligible(path) /\ subj.some /\ IsMatch(regex, subj.val)
        THEN <<PathDisplay(path)>>
        ELSE <<>>

RECURSIVE Collect(_, _, _)
\* The for loop over the entries of dir, in enumeration order.
Collect(dir, entries, regex) ==
    IF entries = <<>> THEN <<>>
    ELSE Pushed(dir, Head(entries), regex) \o Collect(dir, Tail(entries), regex)

search_files_recursive(dir, regex) ==
    IF IsDir(dir)
    THEN LET rd == ReadDir(dir)
         IN  IF rd.ok THEN Returned(Collect(dir, rd.entries, regex))
             ELSE Panicked                 \* .expect("read_dir call failed")
    ELSE Returned(<<>>)

search_files(rp, st) ==
    LET regex == RegexNew(FormatPattern(st))
    IN  IF regex.ok THEN search_files_recursive(PathBufFrom(rp), regex)
        ELSE Panicked                      \* .unwrap()

-----------------------------------------------------------------------------
(* User input *)

s_root == <<Slash>>
s_a    == <<Slash>> \o n_a
s_foo  == s_a \o <<Slash>> \o n_foo
s_Foo  == s_a \o <<Slash>> \o n_Foo
s_baz  == s_a \o <<Slash>> \o n_baz
s_lck  == s_a \o <<Slash>> \o n_lck
s_no   == <<Slash>> \o n_nope

t_empty == <<>>
t_foo   == <<"f", "o", "o">>
t_FO    == <<"F", "O">>
t_open  == <<"(">>
t_close == <<"o", ")">>
t_group == <<"(", "b", ")", "a">>
t_ba    == <<"b", "a", ".">>
t_x     == <<"x">>

\* What the user types into the directory box and the search box while
\* searches are in flight.
RootInputs == {s_a, s_Foo}
TermInputs == {t_empty, t_foo, t_open}

\* The inputs of a single search: existing, missing and unreadable roots, a
\* root that is a file; literal, empty, grouped, dotted and invalid patterns.
ScanRoots == {s_root, s_a, s_foo, s_Foo, s_baz, s_lck, s_no}
ScanTerms == {t_empty, t_foo, t_FO, t_open, t_close, t_group, t_ba, t_x}

\* The folders the native picker can return.
Folders == {<<n_a, n_Foo>>}

\* std::env::current_dir() at start-up.
CurrentDir == <<n_a>>

-----------------------------------------------------------------------------
(* Commands *)

UPDATE_SEARCH_RESULTS == "update_search_results"
SHOW_OPEN_PANEL       == "show_open_panel"

RECURSIVE SharedResults(_)
\* What one vector shared by workers 1..n would hold.
SharedResults(n) == IF n = 0 THEN <<>> ELSE SharedResults(n - 1) \o results[n]

\* Mutant: the workers accumulate into one shared vector and submit it.
UpdateCommandShared(w, payload) ==
    [selector |-> UPDATE_SEARCH_RESULTS, payload |-> SharedResults(MaxRequests),
     from |-> w]

UpdateCommand(w, payload) ==
    [selector |-> UPDATE_SEARCH_RESULTS, payload |-> payload, from |-> w]
OpenPanelCommand ==
    [selector |-> SHOW_OPEN_PANEL, payload |-> <<>>, from |-> 0]

\* Mutant: the command is queued twice.
SubmitTwice(q, cmd) == Append(Append(q, cmd), cmd)

\* ExtEventSink::submit_command: the command joins the end of the queue.
Submit(q, cmd) == Append(q, cmd)

\* Mutant: the payload is appended to the displayed list.
UpdateResultsAppend(old, payload) == old \o payload

\* Mutant: the entries of the payload not yet displayed are added to the list.
UpdateResultsMerge(old, payload) ==
    old \o SelectSeq(payload, LAMBDA x : x \notin {old[i] : i \in 1..Len(old)})

\* Mutant: a payload is applied only while nothing is displayed.
UpdateResultsKeep(old, payload) == IF old = <<>> THEN payload ELSE old

\* data.search_results = results.clone()
UpdateResults(old, payload) == payload

\* Mutant: the click leaves the displayed list as it is.
ClickResultsKept == search_results

\* Search click: data.search_results = Arc::new(Vec::new())
ClickResults == <<>>

\* Mutant: a confirmed pick leaves the displayed list as it is.
PickResultsKept == search_results

\* Confirmed pick: data.search_results = Arc::new(Vec::new())
PickResults == <<>>

\* Mutant: the closure reads the live field instead of its clone.
WorkerRootLive(w) == root_path

\* The closure's root and term: the values moved into it at the click.
WorkerRoot(w) == root[w]
WorkerTerm(w) == term[w]

-----------------------------------------------------------------------------
(* State machine *)

Init ==
    /\ root_path = PathDisplay(CurrentDir)
    /\ search_term = <<>>
    /\ search_results = <<>>
    /\ pc = [w \in Workers |-> "idle"]
    /\ root = [w \in Workers |-> <<>>]
    /\ term = [w \in Workers |-> <<>>]
    /\ results = [w \in Workers |-> <<>>]
    /\ queue = <<>>
    /\ app = "running"
    /\ opened = <<>>
    /\ locked = TRUE
    /\ submitOrder = <<>>
    /\ handledOrder = <<>>
    /\ lastWrite = "init"

workerVars == <<pc, root, term, results>>
history    == <<submitOrder, handledOrder>>
outside    == <<app, opened, locked>>

\* The directory TextBox, bound to AppState::root_path.
EditRootPath ==
    \E s \in RootInputs :
        /\ app = "running"
        /\ s # root_path
        /\ root_path' = s
        /\ UNCHANGED <<search_term, search_results, workerVars, queue, history,
                       lastWrite, outside>>

\* The search TextBox, bound to AppState::search_term.
EditSearchTerm ==
    \E t \in TermInputs :
        /\ app = "running"
        /\ t # search_term
        /\ search_term' = t
        /\ UNCHANGED <<root_path, search_results, workerVars, queue, history,
                       lastWrite, outside>>

\* Mutant: the handler waits for the running searches before it spawns.
SearchClickJoin ==
    \E w \in Workers :
        /\ app = "running"
        /\ \A v \in Workers : pc[v] \notin {"spawned", "submit"}
        /\ pc[w] = "idle"
        /\ \A v \in Workers : v < w => pc[v] # "idle"
        /\ root' = [root EXCEPT ![w] = root_path]
        /\ term' = [term EXCEPT ![w] = search_term]
        /\ search_results' = <<>>
        /\ pc' = [pc EXCEPT ![w] = "spawned"]
        /\ lastWrite' = "click"
        /\ UNCHANGED <<root_path, search_term, results, queue, submitOrder,
                       handledOrder, app, opened, locked>>

\* search_btn on_click: clone the inputs, clear the list, spawn the thread.
SearchClick ==
    \E w \in Workers :
        /\ app = "running"
        /\ pc[w] = "idle"
        /\ \A v \in Workers : v < w => pc[v] # "idle"
        /\ root' = [root EXCEPT ![w] = root_path]
        /\ term' = [term EXCEPT ![w] = search_term]
        /\ search_results' = ClickResults
        /\ pc' = [pc EXCEPT ![w] = "spawned"]
        /\ lastWrite' = "click"
        /\ UNCHANGED <<root_path, search_term, results, queue, history, outside>>

\* Mutant: a panic of the worker aborts the whole process.
WorkerSearchAbort(w) ==
    /\ app = "running"
    /\ pc[w] = "spawned"
    /\ LET out == search_files(WorkerRoot(w), WorkerTerm(w))
       IN  IF out.panic
           THEN /\ pc' = [pc EXCEPT ![w] = "panicked"]
                /\ app' = "crashed"
                /\ UNCHANGED results
           ELSE /\ pc' = [pc EXCEPT ![w] = "submit"]
                /\ results' = [results EXCEPT ![w] = out.results]
                /\ UNCHANGED app
    /\ UNCHANGED <<root_path, search_term, search_results, root, term, queue,
                   submitOrder, handledOrder, lastWrite, opened, locked>>

\* The spawned closure, first statement: let results = search_files(..).
WorkerSearch(w) ==
    /\ app = "running"
    /\ pc[w] = "spawned"
    /\ LET out == search_files(WorkerRoot(w), WorkerTerm(w))
       IN  IF out.panic
           THEN /\ pc' = [pc EXCEPT ![w] = "panicked"]
                /\ UNCHANGED results
           ELSE /\ pc' = [pc EXCEPT ![w] = "submit"]
                /\ results' = [results EXCEPT ![w] = out.results]
    /\ UNCHANGED <<root_path, search_term, search_results, root, term, queue,
                   history, lastWrite, outside>>

\* The spawned closure, second statement: sink.submit_command(..).
WorkerSubmit(w) ==
    /\ app = "running"
    /\ pc[w] = "submit"
    /\ queue' = Submit(queue, UpdateCommand(w, results[w]))
    /\ submitOrder' = Append(submitOrder, w)
    /\ pc' = [pc EXCEPT ![w] = "done"]
    /\ UNCHANGED <<root_path, search_term, search_results, root, term, results,
                   handledOrder, lastWrite, outside>>

\* Delegate::command
DelegateCommand(cmd) ==
    IF cmd.selector = UPDATE_SEARCH_RESULTS
    THEN /\ search_results' = UpdateResults(search_results, cmd.payload)
         /\ lastWrite' = "update"
         /\ UNCHANGED <<root_path, search_term>>
    ELSE IF cmd.selector = SHOW_OPEN_PANEL
    THEN \E folder \in {Some(f) : f \in Folders} \cup {NoneOpt} :
            IF folder.some
            THEN /\ root_path' = PathDisplay(folder.val)
                 /\ search_results' = PickResults
                 /\ lastWrite' = "pick"
                 /\ UNCHANGED search_term
            ELSE UNCHANGED <<root_path, search_term, search_results, lastWrite>>
    ELSE UNCHANGED <<root_path, search_term, search_results, lastWrite>>

\* The UI thread takes the next command of the external queue.
HandleCommand ==
    /\ app = "running"
    /\ queue # <<>>
    /\ DelegateCommand(Head(queue))
    /\ queue' = Tail(queue)
    /\ handledOrder' = Append(handledOrder, Head(queue).from)
    /\ UNCHANGED <<workerVars, submitOrder, outside>>

\* choose_dir_btn on_click: SHOW_OPEN_PANEL is submitted and dispatched to
\* the delegate before the UI thread returns to the event loop.
ChooseDirectory ==
    /\ app = "running"
    /\ DelegateCommand(OpenPanelCommand)
    /\ UNCHANGED <<workerVars, queue, history, outside>>

\* results_list on_click: open_path(item). Command::spawn returns Ok and the
\* launcher has the path, or Err and .expect("failed to open file") panics
\* on the UI thread.
OpenPathClick ==
    \E i \in 1..Len(search_results), spawned \in BOOLEAN :
        /\ app = "running"
        /\ IF spawned
           THEN opened' = search_results[i] /\ UNCHANGED app
           ELSE app' = "crashed" /\ UNCHANGED opened
        /\ UNCHANGED <<root_path, search_term, search_results, workerVars, queue,
                       history, lastWrite, locked>>

\* The file system changes under the program: /a/lck becomes unreadable, or
\* readable and empty.
ReplaceLck ==
    /\ locked' = ~locked
    /\ UNCHANGED <<root_path, search_term, search_results, workerVars, queue,
                   history, lastWrite, app, opened>>

Next ==
    \/ EditRootPath
    \/ EditSearchTerm
    \/ SearchClick
    \/ \E w \in Workers : WorkerSearch(w)
    \/ \E w \in Workers : WorkerSubmit(w)
    \/ HandleCommand
    \/ ChooseDirectory

Spec == Init /\ [][Next]_vars

\* Searches from any input the two boxes can hold, the user opening result
\* entries, and the file system changing meanwhile.
ScanInit ==
    /\ root_path \in ScanRoots
    /\ search_term \in ScanTerms
    /\ search_results = <<>>
    /\ pc = [w \in Workers |-> "idle"]
    /\ root = [w \in Workers |-> <<>>]
    /\ term = [w \in Workers |-> <<>>]
    /\ results = [w \in Workers |-> <<>>]
    /\ queue = <<>>
    /\ app = "running"
    /\ opened = <<>>
    /\ locked \in BOOLEAN
    /\ submitOrder = <<>>
    /\ handledOrder = <<>>
    /\ lastWrite = "init"

ScanNext ==
    \/ SearchClick
    \/ \E w \in Workers : WorkerSearch(w)
    \/ \E w \in Workers : WorkerSubmit(w)
    \/ HandleCommand
    \/ OpenPathClick
    \/ ReplaceLck

ScanSpec == ScanInit /\ [][ScanNext]_vars

\* Threads are scheduled and the UI thread keeps running its event loop.
FairSpec ==
    /\ Spec
    /\ \A w \in Workers : WF_vars(WorkerSearch(w)) /\ WF_vars(WorkerSubmit(w))
    /\ WF_vars(HandleCommand)

-----------------------------------------------------------------------------
(* Vocabulary of the properties *)

Range(q) == {q[i] : i \in 1..Len(q)}

Count(q, x) == Cardinality({i \in 1..Len(q) : q[i] = x})

IsPrefix(p, q) == Len(p) <= Len(q) /\ SubSeq(q, 1, Len(p)) = p

\* Worker w has been spawned by a Search click.
Issued(w) == pc[w] # "idle"

\* Worker w's scan has returned.
Finished(w) == pc[w] \in {"submit", "done"}

\* Worker w's request is issued and its result is not yet handled.
InFlight(w) == Issued(w) /\ pc[w] # "panicked" /\ w \notin Range(handledOrder)

\* A Search click happens in this step, spawning worker w.
ClickStep(w) == pc[w] = "idle" /\ pc'[w] = "spawned"

\* The complete result of scanning worker w's request on its own.
ScanOf(w) == search_files(root[w], term[w]).results

\* The pattern of worker w's request compiles.
PatternOk(w) == RegexNew(FormatPattern(term[w])).ok

-----------------------------------------------------------------------------
(* C1 *)

\* C1 (as stated): from the moment a request is issued the displayed list is
\* the list displayed before the request was issued or the complete result of
\* a finished scan; at the click that issues the request it is therefore
\* unchanged or equal to a finished scan's result.
C1_PreviousOrComplete ==
    [][\A w \in Workers :
          ClickStep(w) =>
             \/ search_results' = search_results
             \/ \E v \in Workers : Finished(v)' /\ search_results' = results'[v]]_vars

\* C1 (amended): in every reachable state the displayed list is the empty
\* list, to which a Search click and a confirmed directory pick reset it, or
\* the complete result list of a finished scan whose command was handled; it
\* is never a partial list nor a mix of lists.
C1_EmptyOrComplete ==
    \/ search_results = <<>>
    \/ \E w \in Range(handledOrder) : search_results = ScanOf(w)

\* A complete non-empty list is displayed while another request is in flight.
C1_Witness ==
    /\ search_results # <<>>
    /\ lastWrite = "update"
    /\ \E w \in Workers : InFlight(w)

-----------------------------------------------------------------------------
(* C2 *)

\* C2: for every Search click at most one command is submitted to the queue
\* and at most one is applied, under every interleaving of the workers.
C2_AtMostOneResult ==
    \A w \in Workers :
        /\ Count(submitOrder, w) <= 1
        /\ Count(handledOrder, w) <= 1
        /\ Cardinality({i \in 1..Len(queue) : queue[i].from = w}) <= 1
        /\ (~Issued(w) => Count(submitOrder, w) = 0)

\* Two concurrently running workers have both submitted and been applied.
C2_Witness ==
    /\ Len(handledOrder) >= 2
    /\ \E v, w \in Workers : v # w /\ v \in Range(handledOrder) /\ w \in Range(handledOrder)

-----------------------------------------------------------------------------
(* C3 *)

\* C3: under fair scheduling every issued request is eventually handled by
\* the consumer.
C3_EveryRequestDelivers ==
    \A w \in Workers : Issued(w) ~> (w \in Range(handledOrder))

-----------------------------------------------------------------------------
(* C4 *)

\* C4: commands are applied in the order they were submitted (completion
\* order, not issue order), and while no click or pick has written the list
\* since, the displayed list is the complete result of the request whose
\* command was handled last.
C4_LastDeliveredWins ==
    /\ IsPrefix(handledOrder, submitOrder)
    /\ lastWrite = "update" =>
          /\ handledOrder # <<>>
          /\ search_results = ScanOf(handledOrder[Len(handledOrder)])

\* Request 1 was issued before request 2, request 2 completed first, both are
\* drained, and the earlier request's different result is displayed.
C4_Witness ==
    /\ MaxRequests >= 2
    /\ Len(handledOrder) >= 2
    /\ handledOrder[1] = 2
    /\ handledOrder[2] = 1
    /\ lastWrite = "update"
    /\ queue = <<>>
    /\ search_results = ScanOf(1)
    /\ ScanOf(1) # ScanOf(2)

-----------------------------------------------------------------------------
(* C5 *)

\* The results a worker holds or has submitted are the scan of its request.
C5_PayloadOfRequest ==
    /\ \A w \in Workers : pc[w] = "submit" => results[w] = ScanOf(w)
    /\ \A i \in 1..Len(queue) : queue[i].payload = ScanOf(queue[i].from)

\* C5: a request is the root and the pattern of the moment of the click,
\* no later step changes it, and what the task delivers is the scan of that
\* request whatever is typed or picked afterwards.
C5_CapturedByValue ==
    /\ []C5_PayloadOfRequest
    /\ [][\A w \in Workers :
             /\ ClickStep(w) => root'[w] = root_path /\ term'[w] = search_term
             /\ Issued(w) => root'[w] = root[w] /\ term'[w] = term[w]]_vars

\* A command is in the queue whose payload differs from the scan of the
\* inputs as edited since the click.
C5_Witness ==
    /\ queue # <<>>
    /\ root[queue[1].from] # root_path
    /\ term[queue[1].from] # search_term
    /\ queue[1].payload # search_files(root_path, search_term).results
    /\ queue[1].payload # <<>>

-----------------------------------------------------------------------------
(* C6 *)

\* C6: a request whose pattern does not compile produces an outcome that
\* reaches the consumer: once its worker has run, something has been
\* submitted to the consumer for that request.
C6_CompileErrorReported ==
    \A w \in Workers :
        (Issued(w) /\ pc[w] # "spawned" /\ ~PatternOk(w)) => w \in Range(submitOrder)

-----------------------------------------------------------------------------
(* C7 *)

\* C7: a Search click whose pattern does not compile leaves the displayed
\* list, root_path and search_term as they were just before the click.
C7_FailedSearchKeepsList ==
    [][\A w \in Workers :
          (ClickStep(w) /\ ~RegexNew(FormatPattern(search_term)).ok) =>
             /\ search_results' = search_results
             /\ root_path' = root_path
             /\ search_term' = search_term]_vars

-----------------------------------------------------------------------------
(* C8 *)

\* Every directory from dir down to the parent of p can be read.
ReadableDown(dir, p) ==
    \A k \in Len(dir)..(Len(p) - 1) :
        LET anc == SubSeq(p, 1, k) IN IsDir(anc) /\ Node(anc).readable

\* The files and directories at any depth under dir that a walk can reach.
EntriesUnder(dir) ==
    {e \in FileSystem :
        /\ Len(e.path) > Len(dir)
        /\ SubSeq(e.path, 1, Len(dir)) = dir
        /\ e.kind \in {"file", "dir"}
        /\ ReadableDown(dir, e.path)}

\* C8: the result of a finished scan contains every entry at any depth under
\* the root whose bare name matches the pattern.
C8_Complete ==
    \A w \in Workers :
        Finished(w) =>
            \A e \in EntriesUnder(PathBufFrom(root[w])) :
                IsMatch(RegexNew(FormatPattern(term[w])), e.path[Len(e.path)])
                    => PathDisplay(e.path) \in Range(results[w])

-----------------------------------------------------------------------------
(* C9 *)

\* The final component of a displayed path: what follows its last slash.
BareName(s) ==
    LET slashes == {i \in 1..Len(s) : s[i] = Slash}
        last    == IF slashes = {} THEN 0
                   ELSE CHOOSE i \in slashes : \A j \in slashes : j <= i
    IN  SubSeq(s, last + 1, Len(s))

\* The pattern is made of letters only.
Literal(t) == \A i \in 1..Len(t) : t[i] \notin {"(", ")", ".", "?"}

\* name contains t, letter case ignored.
ContainsIgnoringCase(name, t) ==
    \E off \in 0..(Len(name) - Len(t)) :
        \A j \in 1..Len(t) : Lower(name[off + j]) = Lower(t[j])

\* The bare name of the displayed path s matches the pattern t.
NameMatches(s, t) ==
    /\ IsMatch(RegexNew(FormatPattern(t)), BareName(s))
    /\ Literal(t) => ContainsIgnoringCase(BareName(s), t)

\* C9: every path in the result of a finished scan, and in every command
\* submitted for it, is an entry whose bare name matches the request's
\* pattern case-insensitively.
C9_Sound ==
    /\ \A w \in Workers :
          Finished(w) =>
              \A i \in 1..Len(results[w]) : NameMatches(results[w][i], term[w])
    /\ \A k \in 1..Len(queue) :
          \A i \in 1..Len(queue[k].payload) :
              NameMatches(queue[k].payload[i], term[queue[k].from])

\* A scan of /a/Foo for "foo" has returned fOOb alone: bar is left out
\* although its full path contains "Foo".
C9_Witness ==
    \E w \in Workers :
        /\ Finished(w)
        /\ root[w] = s_Foo
        /\ term[w] = t_foo
        /\ results[w] = <<s_Foo \o <<Slash>> \o n_fob>>

-----------------------------------------------------------------------------
(* C10 *)

\* The root of worker w's request is a directory that can be read.
RootReadable(w) ==
    LET dir == PathBufFrom(root[w]) IN IsDir(dir) /\ Node(dir).readable

\* C10: a request with a valid pattern whose root is not a readable
\* directory completes with the empty result list.
C10_UnreadableRootIsEmpty ==
    \A w \in Workers :
        (Issued(w) /\ pc[w] # "spawned" /\ PatternOk(w) /\ ~RootReadable(w)) =>
            Finished(w) /\ results[w] = <<>>

-----------------------------------------------------------------------------
(* C11 *)

\* The roots other than the subdirectory that cannot be read.
RootsBesideLck == ScanRoots \ {s_lck}

\* C11: with a subdirectory of the tree unreadable, a scan with a valid
\* pattern does not abort, and it returns exactly what it returns when that
\* subdirectory is readable and empty: whichever of the two /a/lck was when
\* the scan ran and whichever it is now, the result of a scan rooted
\* elsewhere is the result the same scan gives now.
C11_ReadErrorIsolated ==
    \A w \in Workers :
        (Issued(w) /\ pc[w] # "spawned" /\ PatternOk(w) /\ root[w] \in RootsBesideLck)
            => Finished(w) /\ results[w] = ScanOf(w)

\* With /a/lck unreadable, the scan of /a for every name has returned the
\* entries beside it, and /a/lck itself.
C11_Witness ==
    \E w \in Workers :
        /\ locked
        /\ Finished(w)
        /\ root[w] = s_a
        /\ term[w] = t_empty
        /\ results[w] = <<s_foo, s_Foo, s_baz, s_lck>>

-----------------------------------------------------------------------------
(* C12 *)

\* The directory a displayed path lies in.
ParentOf(str) == LET p == PathBufFrom(str) IN SubSeq(p, 1, Len(p) - 1)

\* The list is the scan of worker w's request alone, all of it under w's root.
OwnListOf(list, w) ==
    /\ list = ScanOf(w)
    /\ \A i \in 1..Len(list) : ParentOf(list[i]) = PathBufFrom(root[w])

\* C12: under every interleaving the payload submitted for a request is the
\* scan of that request's own root and pattern, and the displayed list, when
\* not empty, is the list of one single handled request: no list mixes the
\* entries of two requests.
C12_NoContamination ==
    /\ \A k \in 1..Len(queue) : OwnListOf(queue[k].payload, queue[k].from)
    /\ search_results # <<>> =>
          \E w \in Range(handledOrder) : OwnListOf(search_results, w)

\* Two requests against different roots are in flight together, both with
\* their own non-empty result in the queue.
C12_Witness ==
    /\ Len(queue) = 2
    /\ handledOrder = <<>>
    /\ root[queue[1].from] # root[queue[2].from]
    /\ queue[1].payload # <<>>
    /\ queue[2].payload # <<>>
    /\ queue[1].payload # queue[2].payload

-----------------------------------------------------------------------------
(* C13 *)

\* C13: whatever the workers are doing, the UI thread can take user input:
\* the two text boxes can be edited, the directory can be chosen, a queued
\* command can be handled and, while the model has a worker left to spawn,
\* Search can be clicked again; and when the click handler has returned its
\* worker has not traversed anything yet.
C13_ConsumerNeverBlocked ==
    /\ ENABLED EditRootPath
    /\ ENABLED EditSearchTerm
    /\ ENABLED ChooseDirectory
    /\ (\E w \in Workers : pc[w] = "idle") => ENABLED SearchClick
    /\ queue # <<>> => ENABLED HandleCommand
    /\ \A w \in Workers : pc[w] = "spawned" => results[w] = <<>>

\* A first search is still in its traversal and Search can be clicked again.
C13_Witness ==
    /\ MaxRequests >= 2
    /\ pc[1] = "spawned"
    /\ pc[2] = "idle"
    /\ ENABLED SearchClick
    /\ ENABLED EditSearchTerm

-----------------------------------------------------------------------------
(* C14 *)

\* C14: a click on a result entry whose launcher cannot be started does not
\* crash the application: the process is running in every reachable state.
C14_LauncherFailureNotFatal == app = "running"

-----------------------------------------------------------------------------
(* C15 *)

\* C15: once a worker has failed, the process is still running, the consumer
\* still takes input and handles queued commands, every other worker can
\* submit the result it holds, which is its own, and only workers whose own
\* request fails have failed.
C15_WorkerFailureIsLocal ==
    (\E w \in Workers : pc[w] = "panicked") =>
        /\ app = "running"
        /\ ENABLED EditSearchTerm
        /\ queue # <<>> => ENABLED HandleCommand
        /\ \A v \in Workers :
              /\ pc[v] = "submit" => ENABLED WorkerSubmit(v) /\ results[v] = ScanOf(v)
              /\ pc[v] = "panicked" => search_files(root[v], term[v]).panic

\* The first worker has failed and the second request's own non-empty result
\* has been delivered and is displayed.
C15_Witness ==
    /\ MaxRequests >= 2
    /\ pc[1] = "panicked"
    /\ 2 \in Range(handledOrder)
    /\ lastWrite = "update"
    /\ search_results = ScanOf(2)
    /\ search_results # <<>>

-----------------------------------------------------------------------------
(* C16 *)

\* The path p lies strictly below the directory dir.
StrictlyUnder(p, dir) == Len(p) > Len(dir) /\ SubSeq(p, 1, Len(dir)) = dir

\* C16: every path in the result of a finished scan, and in every command
\* submitted for it, parses to a path strictly below the request's root: it
\* is never the root itself and never a path outside the root's subtree.
C16_UnderRoot ==
    /\ \A w \in Workers :
          Finished(w) =>
              \A i \in 1..Len(results[w]) :
                  StrictlyUnder(PathBufFrom(results[w][i]), PathBufFrom(root[w]))
    /\ \A k \in 1..Len(queue) :
          \A i \in 1..Len(queue[k].payload) :
              StrictlyUnder(PathBufFrom(queue[k].payload[i]),
                            PathBufFrom(root[queue[k].from]))

\* The scan of the directory /a/Foo, whose own name matches "FO", has
\* returned its entry fOOb and not /a/Foo itself.
C16_Witness ==
    \E w \in Workers :
        /\ Finished(w)
        /\ root[w] = s_Foo
        /\ term[w] = t_FO
        /\ results[w] = <<s_Foo \o <<Slash>> \o n_fob>>

-----------------------------------------------------------------------------
(* C17 *)

\* The entries read_dir enumerates in the root of worker w's request.
Enumerated(w) == Range(ReadDir(PathBufFrom(root[w])).entries)

\* The entry called name in w's root matches w's pattern.
ChildMatches(w, name) == IsMatch(RegexNew(FormatPattern(term[w])), name)

\* The displayed path of the entry called name in w's root is in w's result.
ChildReturned(w, name) ==
    PathDisplay(Join(PathBufFrom(root[w]), name)) \in Range(results[w])

\* C17 (as stated): every child entry enumerated by a finished scan whose
\* bare name matches the pattern is in the result.
C17_EveryMatchingChild ==
    \A w \in Workers :
        Finished(w) =>
            \A name \in Enumerated(w) : ChildMatches(w, name) => ChildReturned(w, name)

\* C17 (amended): every enumerated child that is a file or a directory and
\* whose bare name matches the pattern is in the result, a directory as well
\* as a file.
C17_FilesAndDirsAlike ==
    \A w \in Workers :
        Finished(w) =>
            \A name \in Enumerated(w) :
                LET path == Join(PathBufFrom(root[w]), name)
                IN  (ChildMatches(w, name) /\ (IsFile(path) \/ IsDir(path)))
                        => ChildReturned(w, name)

\* The scan of /a for "foo" has returned the file /a/foo and the directory
\* /a/Foo.
C17_Witness ==
    \E w \in Workers :
        /\ Finished(w)
        /\ root[w] = s_a
        /\ term[w] = t_foo
        /\ IsFile(PathBufFrom(s_foo))
        /\ IsDir(PathBufFrom(s_Foo))
        /\ results[w] = <<s_foo, s_Foo>>

-----------------------------------------------------------------------------
(* C18 *)

\* C18: a Search click, whatever the root and the pattern, sets the displayed
\* list to the empty list, leaves root_path and search_term as they are,
\* spawns exactly one worker, which holds the two inputs of the moment and
\* has computed nothing, and submits nothing.
C18_ClickClearsAndSpawnsOne ==
    [][\A w \in Workers :
          ClickStep(w) =>
             /\ search_results' = <<>>
             /\ root_path' = root_path
             /\ search_term' = search_term
             /\ \A v \in Workers \ {w} : pc'[v] = pc[v]
             /\ root'[w] = root_path
             /\ term'[w] = search_term
             /\ results' = results
             /\ queue' = queue]_vars

\* Search has just been clicked with a pattern that does not compile, after
\* a non-empty result had been delivered: the list is empty.
C18_Witness ==
    /\ lastWrite = "click"
    /\ search_results = <<>>
    /\ handledOrder # <<>>
    /\ ScanOf(handledOrder[1]) # <<>>
    /\ \E w \in Workers : pc[w] = "spawned" /\ ~PatternOk(w)

-----------------------------------------------------------------------------
(* C19 *)

\* C19: the step that takes an UPDATE_SEARCH_RESULTS command off the queue
\* makes the displayed list the payload, whatever was displayed, and leaves
\* root_path and search_term as they are; and a queued command can always be
\* handled, whichever request it comes from and whatever the inputs are now.
C19_UpdateReplacesWholesale ==
    /\ [](queue # <<>> => ENABLED HandleCommand)
    /\ [][(queue # <<>> /\ queue' = Tail(queue)) =>
             /\ search_results' = Head(queue).payload
             /\ root_path' = root_path
             /\ search_term' = search_term]_vars

\* The list displayed was delivered for a request that is not the latest and
\* whose root and pattern are not the current ones.
C19_Witness ==
    /\ lastWrite = "update"
    /\ handledOrder # <<>>
    /\ LET w == handledOrder[Len(handledOrder)]
       IN  /\ \E v \in Workers : v > w /\ Issued(v)
           /\ root[w] # root_path
           /\ term[w] # search_term
           /\ search_results = ScanOf(w)
           /\ search_results # <<>>
           /\ search_results # search_files(root_path, search_term).results

-----------------------------------------------------------------------------
(* C20 *)

\* C20: a choose-directory step either sets root_path to the picked folder
\* and the displayed list to the empty list, or (picker cancelled) leaves
\* both as they are; it never changes search_term, the workers or the queue,
\* and after a pick a queued result of an earlier request can be handled.
C20_ChooseDirectoryFrame ==
    /\ []((lastWrite = "pick" /\ queue # <<>>) => ENABLED HandleCommand)
    /\ [][ChooseDirectory =>
             /\ \/ /\ \E f \in Folders : root_path' = PathDisplay(f)
                   /\ search_results' = <<>>
                \/ /\ root_path' = root_path
                   /\ search_results' = search_results
             /\ search_term' = search_term
             /\ pc' = pc /\ root' = root /\ term' = term /\ results' = results
             /\ queue' = queue]_vars

\* A folder has just been picked while the non-empty result of a request
\* against the old root waits in the queue.
C20_Witness ==
    /\ lastWrite = "pick"
    /\ search_results = <<>>
    /\ root_path = s_Foo
    /\ queue # <<>>
    /\ root[queue[1].from] = s_a
    /\ queue[1].payload # <<>>
    /\ ENABLED HandleCommand

=============================================================================
